---- MODULE Spec2Model ----
(***************************************************************************)
(* Model of blogicum/blog/views.py: the request handlers of the blog, the  *)
(* store they read and write (posts, comments, user profiles) and the      *)
(* response each request is answered with.  One action per view; an action *)
(* is one whole request/response cycle.                                    *)
(***************************************************************************)
EXTENDS Integers, Sequences, FiniteSets

\* ---- bounds of the model ----
MaxPosts == 2
MaxComments == 2
MaxTime == 1
MaxPage == 2
ManyPosts == 12

\* ---- program constants ----
PaginateBy == 10

\* ---- domains ----
Users == {"u1", "u2"}
Anonymous == "anon"
Requesters == Users \cup {Anonymous}
Usernames == Users \cup {"ghost"}
Categories == {"c1", "c2"}
NoCategory == "none"
Slugs == Categories \cup {"nocat"}
CategoryPublished == [c \in Categories |-> c = "c1"]
Texts == {"a", "b"}
Methods == {"GET", "POST"}
PostIds == 1..MaxPosts
CommentIds == 1..MaxComments
Dates == 0..MaxTime
Pages == 1..MaxPage

VARIABLES posts, comments, profiles, nextPostId, nextCommentId, now, resp
vars == <<posts, comments, profiles, nextPostId, nextCommentId, now, resp>>
store == <<posts, comments, profiles>>

\* ---- the data a valid form carries ----
PostFormData ==
    [is_published : BOOLEAN, pub_date : Dates,
     category : Categories \cup {NoCategory}]
CommentFormData == [text : Texts]
UserProfileFormData == [first_name : Texts]

\* ---- responses ----
NoTarget == [name |-> "", post |-> 0, username |-> ""]
NoBody == [post |-> 0, list |-> << >>]
Response(view, user, post_id, comment_id, name, page, status, target, body) ==
    [view |-> view, user |-> user, post_id |-> post_id,
     comment_id |-> comment_id, name |-> name, page |-> page, status |-> status, target |-> target,
     body |-> body]
Render(body) == [status |-> "ok", target |-> NoTarget, body |-> body]
Redirect(name, post, username) ==
    [status |-> "redirect",
     target |-> [name |-> name, post |-> post, username |-> username],
     body |-> NoBody]
Http404 == [status |-> "not_found", target |-> NoTarget, body |-> NoBody]
PermissionDenied == [status |-> "forbidden", target |-> NoTarget, body |-> NoBody]
ServerError == [status |-> "server_error", target |-> NoTarget, body |-> NoBody]
RedirectToLogin == Redirect("login", 0, "")
Answer(view, user, post_id, comment_id, name, r) ==
    Response(view, user, post_id, comment_id, name, 0, r.status, r.target, r.body)
AnswerPage(view, user, name, page, r) ==
    Response(view, user, 0, 0, name, page, r.status, r.target, r.body)

\* ---- store helpers ----
Without(f, k) == [i \in DOMAIN f \ {k} |-> f[i]]
With(f, k, v) == [i \in DOMAIN f \cup {k} |-> IF i = k THEN v ELSE f[i]]
is_authenticated(user) == user \in Users
CascadeComments(cs, post_id) ==
    [i \in {j \in DOMAIN cs : cs[j].post # post_id} |-> cs[i]]
CommentFormSave(comment, data) == [comment EXCEPT !.text = data.text]
PostFormSave(post, data) ==
    [post EXCEPT !.is_published = data.is_published,
                 !.pub_date = data.pub_date,
                 !.category = data.category]

\* ---- ordering of a queryset: rows of equal pub_date come in any order ----
Orderings(S) ==
    {s \in [1..Cardinality(S) -> S] : \A i, j \in 1..Cardinality(S) : s[i] = s[j] => i = j}
RECURSIVE OrderByPubDateDesc(_)
OrderByPubDateDesc(S) ==
    IF S = {} THEN {<< >>}
    ELSE UNION {{<<p>> \o t : t \in OrderByPubDateDesc(S \ {p})} :
                p \in {q \in S : \A r \in S : posts[q].pub_date >= posts[r].pub_date}}

\* ---- MultipleObjectMixin.paginate_queryset: the page the request names, of
\* ---- paginate_by rows; a page that does not exist is a 404 ----
NumPages(count) ==
    IF count = 0 THEN 1 ELSE (count + PaginateBy - 1) \div PaginateBy
PageRows(s, page) ==
    SubSeq(s, (page - 1) * PaginateBy + 1,
           IF page * PaginateBy < Len(s) THEN page * PaginateBy ELSE Len(s))
paginate_queryset(s, page) ==
    IF page < 1 \/ page > NumPages(Len(s)) THEN Http404
    ELSE Render([post |-> 0, list |-> PageRows(s, page)])
OrderByCreatedAt(S) ==
    CHOOSE s \in Orderings(S) : \A i, j \in 1..Len(s) : i < j => s[i] < s[j]

\* ---- querysets ----
\* (variant for the feed property: the filter without pub_date__lte)
PostListView_get_queryset_no_date ==
    {p \in DOMAIN posts :
        /\ posts[p].is_published
        /\ posts[p].category \in Categories
        /\ CategoryPublished[posts[p].category]}
PostListView_get_queryset ==
    {p \in DOMAIN posts :
        /\ posts[p].is_published
        /\ posts[p].pub_date <= now
        /\ posts[p].category \in Categories
        /\ CategoryPublished[posts[p].category]}
\* (variant for the profile property: a publication filter added)
ProfileView_get_queryset_published(username) ==
    {p \in DOMAIN posts : posts[p].author = username /\ posts[p].is_published}
ProfileView_get_queryset(username) ==
    {p \in DOMAIN posts : posts[p].author = username}
CategoryPostsView_get_queryset(category) ==
    {p \in DOMAIN posts :
        /\ posts[p].is_published
        /\ posts[p].pub_date <= now
        /\ posts[p].category = category
        /\ CategoryPublished[posts[p].category]}
\* (variant for the delete property: the queryset not scoped to the requester)
PostDeleteView_get_queryset_unscoped(user) == DOMAIN posts
PostDeleteView_get_queryset(user) ==
    {p \in DOMAIN posts : posts[p].author = user}

\* ---- PostDetailView.get_object ----
\* The condition is evaluated left to right: the author test, then
\* is_published, then category.is_published, which raises AttributeError
\* (an unhandled server error) when the post has no category, then pub_date.
PostDetailView_get_object(post_id, user) ==
    IF post_id \notin DOMAIN posts THEN Http404
    ELSE IF posts[post_id].author = user THEN Render([post |-> post_id, list |-> << >>])
    ELSE IF ~posts[post_id].is_published THEN Http404
    ELSE IF posts[post_id].category = NoCategory THEN ServerError
    ELSE IF CategoryPublished[posts[post_id].category] /\ posts[post_id].pub_date <= now
         THEN Render([post |-> post_id, list |-> << >>])
    ELSE Http404

\* ---- PostUpdateView.test_func ----
\* (variant for the update property: the author comparison dropped)
PostUpdateView_test_func_any_user(pk, user) == is_authenticated(user)
PostUpdateView_test_func(pk, user) ==
    is_authenticated(user) /\ posts[pk].author = user

Init ==
    /\ posts = << >>
    /\ comments = << >>
    /\ profiles = [u \in Users |-> "a"]
    /\ nextPostId = 1
    /\ nextCommentId = 1
    /\ now = 0
    /\ resp = Response("", Anonymous, 0, 0, "", 0, "", NoTarget, NoBody)

\* GET /?page=
PostListView ==
    /\ \E user \in Requesters, page \in Pages,
          s \in OrderByPubDateDesc(PostListView_get_queryset) :
          resp' = AnswerPage("index", user, "", page, paginate_queryset(s, page))
    /\ UNCHANGED <<posts, comments, profiles, nextPostId, nextCommentId, now>>

\* GET/POST /posts/create/
PostCreateView_form_valid(user, data) ==
    [author |-> user, is_published |-> data.is_published,
     pub_date |-> data.pub_date, category |-> data.category]
PostCreateView(Data) ==
    \E user \in Requesters, method \in Methods :
        \/ /\ ~is_authenticated(user)
           /\ resp' = Answer("create_post", user, 0, 0, "", RedirectToLogin)
           /\ UNCHANGED <<posts, comments, profiles, nextPostId, nextCommentId, now>>
        \/ /\ is_authenticated(user)
           /\ resp' = Answer("create_post", user, 0, 0, "", Render(NoBody))
           /\ UNCHANGED <<posts, comments, profiles, nextPostId, nextCommentId, now>>
        \/ /\ is_authenticated(user)
           /\ method = "POST"
           /\ nextPostId <= MaxPosts
           /\ \E data \in Data :
                 posts' = With(posts, nextPostId, PostCreateView_form_valid(user, data))
           /\ nextPostId' = nextPostId + 1
           /\ resp' = Answer("create_post", user, nextPostId, 0, "",
                             Redirect("profile", 0, posts'[nextPostId].author))
           /\ UNCHANGED <<comments, profiles, nextCommentId, now>>

\* GET/POST /posts/{pk}/edit/
PostUpdateView(Data) ==
    \E user \in Requesters, method \in Methods, pk \in PostIds :
        \/ /\ pk \notin DOMAIN posts
           /\ resp' = Answer("edit_post", user, pk, 0, "", Http404)
           /\ UNCHANGED <<posts, comments, profiles, nextPostId, nextCommentId, now>>
        \/ /\ pk \in DOMAIN posts
           /\ ~PostUpdateView_test_func(pk, user)
           /\ resp' = Answer("edit_post", user, pk, 0, "",
                             Redirect("post_detail", pk, ""))
           /\ UNCHANGED <<posts, comments, profiles, nextPostId, nextCommentId, now>>
        \/ /\ pk \in DOMAIN posts
           /\ PostUpdateView_test_func(pk, user)
           /\ resp' = Answer("edit_post", user, pk, 0, "", Render(NoBody))
           /\ UNCHANGED <<posts, comments, profiles, nextPostId, nextCommentId, now>>
        \/ /\ pk \in DOMAIN posts
           /\ PostUpdateView_test_func(pk, user)
           /\ method = "POST"
           /\ \E data \in Data :
                 posts' = [posts EXCEPT ![pk] = PostFormSave(posts[pk], data)]
           /\ resp' = Answer("edit_post", user, pk, 0, "",
                             Redirect("post_detail", pk, ""))
           /\ UNCHANGED <<comments, profiles, nextPostId, nextCommentId, now>>

\* GET/POST /posts/{post_id}/delete/
PostDeleteView ==
    \E user \in Requesters, method \in Methods, post_id \in PostIds :
        \/ /\ ~is_authenticated(user)
           /\ resp' = Answer("delete_post", user, post_id, 0, "", RedirectToLogin)
           /\ UNCHANGED <<posts, comments, profiles, nextPostId, nextCommentId, now>>
        \/ /\ is_authenticated(user)
           /\ post_id \notin PostDeleteView_get_queryset(user)
           /\ resp' = Answer("delete_post", user, post_id, 0, "", Http404)
           /\ UNCHANGED <<posts, comments, profiles, nextPostId, nextCommentId, now>>
        \/ /\ is_authenticated(user)
           /\ post_id \in PostDeleteView_get_queryset(user)
           /\ method = "GET"
           /\ resp' = Answer("delete_post", user, post_id, 0, "", Render(NoBody))
           /\ UNCHANGED <<posts, comments, profiles, nextPostId, nextCommentId, now>>
        \/ /\ is_authenticated(user)
           /\ post_id \in PostDeleteView_get_queryset(user)
           /\ method = "POST"
           /\ posts' = Without(posts, post_id)
           /\ comments' = CascadeComments(comments, post_id)
           /\ resp' = Answer("delete_post", user, post_id, 0, "",
                             Redirect("index", 0, ""))
           /\ UNCHANGED <<profiles, nextPostId, nextCommentId, now>>

\* GET /posts/{post_id}/
PostDetailView_get_context_data(r) ==
    IF r.status # "ok" THEN r
    ELSE Render([post |-> r.body.post,
                 list |-> OrderByCreatedAt(
                     {c \in DOMAIN comments : comments[c].post = r.body.post})])
PostDetailView ==
    /\ \E user \in Requesters, post_id \in PostIds :
          resp' = Answer("post_detail", user, post_id, 0, "",
                         PostDetailView_get_context_data(
                             PostDetailView_get_object(post_id, user)))
    /\ UNCHANGED <<posts, comments, profiles, nextPostId, nextCommentId, now>>

\* GET /profile/{username}/?page=
ProfileView ==
    /\ \E user \in Requesters, username \in Usernames, page \in Pages :
          \/ /\ username \notin Users
             /\ resp' = AnswerPage("profile", user, username, page, Http404)
          \/ /\ username \in Users
             /\ \E s \in OrderByPubDateDesc(ProfileView_get_queryset(username)) :
                   resp' = AnswerPage("profile", user, username, page,
                                      paginate_queryset(s, page))
    /\ UNCHANGED <<posts, comments, profiles, nextPostId, nextCommentId, now>>

\* GET /category/{category_slug}/?page=
CategoryPostsView ==
    /\ \E user \in Requesters, category_slug \in Slugs, page \in Pages :
          \/ /\ ~(category_slug \in Categories /\ CategoryPublished[category_slug])
             /\ resp' = AnswerPage("category_posts", user, category_slug, page, Http404)
          \/ /\ category_slug \in Categories
             /\ CategoryPublished[category_slug]
             /\ \E s \in OrderByPubDateDesc(CategoryPostsView_get_queryset(category_slug)) :
                   resp' = AnswerPage("category_posts", user, category_slug, page,
                                      paginate_queryset(s, page))
    /\ UNCHANGED <<posts, comments, profiles, nextPostId, nextCommentId, now>>

\* GET/POST /profile/edit/
EditProfileView ==
    \E user \in Requesters, method \in Methods :
        \/ /\ ~is_authenticated(user)
           /\ resp' = Answer("edit_profile", user, 0, 0, "", RedirectToLogin)
           /\ UNCHANGED <<posts, comments, profiles, nextPostId, nextCommentId, now>>
        \/ /\ is_authenticated(user)
           /\ resp' = Answer("edit_profile", user, 0, 0, "", Render(NoBody))
           /\ UNCHANGED <<posts, comments, profiles, nextPostId, nextCommentId, now>>
        \/ /\ is_authenticated(user)
           /\ method = "POST"
           /\ \E data \in UserProfileFormData :
                 profiles' = [profiles EXCEPT ![user] = data.first_name]
           /\ resp' = Answer("edit_profile", user, 0, 0, "",
                             Redirect("profile", 0, user))
           /\ UNCHANGED <<posts, comments, nextPostId, nextCommentId, now>>

\* GET/POST /posts/{post_id}/comment/
\* (variant for the authorship property: the post's author taken as author)
AddCommentView_form_valid_post_author(post_id, user, data) ==
    [post |-> post_id, author |-> posts[post_id].author, text |-> data.text]
AddCommentView_form_valid(post_id, user, data) ==
    [post |-> post_id, author |-> user, text |-> data.text]
AddCommentView ==
    \E user \in Requesters, method \in Methods, post_id \in PostIds :
        \/ /\ ~is_authenticated(user)
           /\ resp' = Answer("add_comment", user, post_id, 0, "", RedirectToLogin)
           /\ UNCHANGED <<posts, comments, profiles, nextPostId, nextCommentId, now>>
        \/ /\ is_authenticated(user)
           /\ resp' = Answer("add_comment", user, post_id, 0, "", Render(NoBody))
           /\ UNCHANGED <<posts, comments, profiles, nextPostId, nextCommentId, now>>
        \/ /\ is_authenticated(user)
           /\ method = "POST"
           /\ post_id \notin DOMAIN posts
           /\ resp' = Answer("add_comment", user, post_id, 0, "", Http404)
           /\ UNCHANGED <<posts, comments, profiles, nextPostId, nextCommentId, now>>
        \/ /\ is_authenticated(user)
           /\ method = "POST"
           /\ post_id \in DOMAIN posts
           /\ nextCommentId <= MaxComments
           /\ \E data \in CommentFormData :
                 comments' = With(comments, nextCommentId,
                                  AddCommentView_form_valid(post_id, user, data))
           /\ nextCommentId' = nextCommentId + 1
           /\ resp' = Answer("add_comment", user, post_id, nextCommentId, "",
                             Redirect("post_detail", post_id, ""))
           /\ UNCHANGED <<posts, profiles, nextPostId, now>>

\* GET/POST /posts/{post_id}/comment/{comment_id}/edit/
\* dispatch looks the comment up and compares its author with the requester
\* before LoginRequiredMixin.dispatch runs; an anonymous requester is never an
\* author, so the mixin's redirect to the login page is never taken here.
EditCommentView_is_author(comment_id, user) == comments[comment_id].author = user
EditCommentView_success_url == Redirect("index", 0, "")
EditCommentView ==
    \E user \in Requesters, method \in Methods,
       post_id \in PostIds, comment_id \in CommentIds :
        \/ /\ comment_id \notin DOMAIN comments
           /\ resp' = Answer("edit_comment", user, post_id, comment_id, "", Http404)
           /\ UNCHANGED <<posts, comments, profiles, nextPostId, nextCommentId, now>>
        \/ /\ comment_id \in DOMAIN comments
           /\ ~EditCommentView_is_author(comment_id, user)
           /\ resp' = Answer("edit_comment", user, post_id, comment_id, "",
                             PermissionDenied)
           /\ UNCHANGED <<posts, comments, profiles, nextPostId, nextCommentId, now>>
        \/ /\ comment_id \in DOMAIN comments
           /\ EditCommentView_is_author(comment_id, user)
           /\ resp' = Answer("edit_comment", user, post_id, comment_id, "",
                             Render(NoBody))
           /\ UNCHANGED <<posts, comments, profiles, nextPostId, nextCommentId, now>>
        \/ /\ comment_id \in DOMAIN comments
           /\ EditCommentView_is_author(comment_id, user)
           /\ method = "POST"
           /\ \E data \in CommentFormData :
                 comments' = [comments EXCEPT
                                 ![comment_id] = CommentFormSave(comments[comment_id], data)]
           /\ resp' = Answer("edit_comment", user, post_id, comment_id, "",
                             EditCommentView_success_url)
           /\ UNCHANGED <<posts, profiles, nextPostId, nextCommentId, now>>

\* GET/POST /posts/{post_id}/comment/{comment_id}/delete/
\* (variant for the forbidden property: the author comparison dropped)
DeleteCommentView_is_author_unchecked(comment_id, user) == TRUE
DeleteCommentView_is_author(comment_id, user) == comments[comment_id].author = user
DeleteCommentView_get_success_url(post_id, comment_id) ==
    Redirect("post_detail", post_id, "")
DeleteCommentView ==
    \E user \in Requesters, method \in Methods,
       post_id \in PostIds, comment_id \in CommentIds :
        \/ /\ comment_id \notin DOMAIN comments
           /\ resp' = Answer("delete_comment", user, post_id, comment_id, "", Http404)
           /\ UNCHANGED <<posts, comments, profiles, nextPostId, nextCommentId, now>>
        \/ /\ comment_id \in DOMAIN comments
           /\ ~DeleteCommentView_is_author(comment_id, user)
           /\ resp' = Answer("delete_comment", user, post_id, comment_id, "",
                             PermissionDenied)
           /\ UNCHANGED <<posts, comments, profiles, nextPostId, nextCommentId, now>>
        \/ /\ comment_id \in DOMAIN comments
           /\ DeleteCommentView_is_author(comment_id, user)
           /\ method = "GET"
           /\ resp' = Answer("delete_comment", user, post_id, comment_id, "",
                             Render(NoBody))
           /\ UNCHANGED <<posts, comments, profiles, nextPostId, nextCommentId, now>>
        \/ /\ comment_id \in DOMAIN comments
           /\ DeleteCommentView_is_author(comment_id, user)
           /\ method = "POST"
           /\ comments' = Without(comments, comment_id)
           /\ resp' = Answer("delete_comment", user, post_id, comment_id, "",
                             DeleteCommentView_get_success_url(post_id, comment_id))
           /\ UNCHANGED <<posts, profiles, nextPostId, nextCommentId, now>>

\* the clock read by timezone.now() advances between requests
Tick ==
    /\ now < MaxTime
    /\ now' = now + 1
    /\ UNCHANGED <<posts, comments, profiles, nextPostId, nextCommentId, resp>>

\* ---- properties of the handlers ----
\* A handler never reads resp, and every reachable store offers two requests
\* with different responses, so each request is taken from each reachable
\* store by a step that changes resp: the step properties below see it.
\* Every handler leaves the clock alone and names itself in the response, so
\* a step that keeps now is the request of the handler resp'.view names.
Request(views) == now' = now /\ resp'.view \in views
IsLive(p) ==
    /\ posts[p].is_published
    /\ posts[p].pub_date <= now
    /\ posts[p].category \in Categories
    /\ CategoryPublished[posts[p].category]
ListedPosts(r) == {r.body.list[i] : i \in 1..Len(r.body.list)}
DetailOf(post_id) == [name |-> "post_detail", post |-> post_id, username |-> ""]

\* C1: the post detail lookup of an existing post returns the post to its
\* author, and to anyone else exactly when the post is published, its
\* pub_date has passed and its category is published; otherwise NotFound.
C1_DetailLookup ==
    [][Request({"post_detail"}) /\ resp'.post_id \in DOMAIN posts =>
          IF posts[resp'.post_id].author = resp'.user \/ IsLive(resp'.post_id)
          THEN resp'.status = "ok" /\ resp'.body.post = resp'.post_id
          ELSE resp'.status = "not_found"]_vars

\* C2: the detail request of a post without category by a requester who is
\* not its author ends in NotFound, whatever is_published and pub_date are.
C2_NoCategoryNotFound ==
    [][(/\ Request({"post_detail"})
        /\ resp'.post_id \in DOMAIN posts
        /\ posts[resp'.post_id].category = NoCategory
        /\ posts[resp'.post_id].author # resp'.user)
       => resp'.status = "not_found"]_vars

\* C3: every post a page of the global feed or of a category feed returns is published,
\* has pub_date <= now and a published category; a category feed returns
\* only posts of the requested category.
C3_FeedsOnlyLive ==
    [][Request({"index", "category_posts"}) =>
          \A p \in ListedPosts(resp') :
              /\ p \in DOMAIN posts
              /\ IsLive(p)
              /\ resp'.view = "category_posts" => posts[p].category = resp'.name]_vars
C3_Witness ==
    /\ resp.view = "index"
    /\ now > 0
    /\ \E p \in ListedPosts(resp) : p \in DOMAIN posts /\ posts[p].pub_date = now
    /\ \E p \in DOMAIN posts : p \notin ListedPosts(resp) /\ ~IsLive(p)

\* C4: an anonymous request to a login-required handler (for the comment
\* handlers: of an existing comment) is redirected to the login page and
\* leaves the store unchanged.
C4_AnonymousRedirected ==
    [][(/\ \/ Request({"create_post", "delete_post", "edit_profile", "add_comment"})
           \/ /\ Request({"edit_comment", "delete_comment"})
              /\ resp'.comment_id \in DOMAIN comments
        /\ resp'.user = Anonymous)
       => /\ resp'.status = "redirect"
          /\ resp'.target.name = "login"
          /\ store' = store]_vars

\* C5: editing or deleting an existing comment as an authenticated requester
\* who is not its author ends in Forbidden and changes no row of the store.
C5_NonAuthorForbidden ==
    [][(/\ Request({"edit_comment", "delete_comment"})
        /\ resp'.comment_id \in DOMAIN comments
        /\ resp'.user \in Users
        /\ comments[resp'.comment_id].author # resp'.user)
       => /\ resp'.status = "forbidden"
          /\ store' = store
          /\ resp'.comment_id \in DOMAIN comments'
          /\ comments'[resp'.comment_id] = comments[resp'.comment_id]]_vars
C5_Witness ==
    /\ resp.view = "delete_comment"
    /\ resp.status = "forbidden"
    /\ resp.user \in Users
    /\ resp.comment_id \in DOMAIN comments
    /\ comments[resp.comment_id].author # resp.user
    /\ Cardinality(DOMAIN comments) = 2

\* C6: deleting an existing post as an authenticated requester who is not its
\* author ends in NotFound and leaves the post and its comments in the store.
C6_DeleteOthersPostNotFound ==
    [][(/\ Request({"delete_post"})
        /\ resp'.post_id \in DOMAIN posts
        /\ resp'.user \in Users
        /\ posts[resp'.post_id].author # resp'.user)
       => /\ resp'.status = "not_found"
          /\ store' = store]_vars
C6_Witness ==
    /\ resp.view = "delete_post"
    /\ resp.status = "not_found"
    /\ resp.user \in Users
    /\ resp.post_id \in DOMAIN posts
    /\ posts[resp.post_id].author # resp.user
    /\ \E c \in DOMAIN comments : comments[c].post = resp.post_id

\* C7: an update request for an existing post by anyone but its author changes
\* no post and is answered with a redirect to the detail view of that post.
C7_UpdateByNonAuthor ==
    [][(/\ Request({"edit_post"})
        /\ resp'.post_id \in DOMAIN posts
        /\ posts[resp'.post_id].author # resp'.user)
       => /\ posts' = posts
          /\ resp'.status = "redirect"
          /\ resp'.target = DetailOf(resp'.post_id)]_vars
C7_Witness ==
    /\ resp.view = "edit_post"
    /\ resp.status = "redirect"
    /\ resp.user \in Users
    /\ resp.post_id \in DOMAIN posts
    /\ posts[resp.post_id].author # resp.user

\* C8: a successful update or delete of a comment by its author is answered
\* with a redirect to the detail view of the post that owns the comment,
\* whatever post_id the request path names.
C8_CommentSuccessRedirect ==
    [][(/\ Request({"edit_comment", "delete_comment"})
        /\ resp'.comment_id \in DOMAIN comments
        /\ comments[resp'.comment_id].author = resp'.user
        /\ resp'.status = "redirect")
       => resp'.target = DetailOf(comments[resp'.comment_id].post)]_vars

\* C9: the profile feed of user U, whoever requests it, is the posts of
\* author U, whatever their publication state, newest first and PaginateBy
\* to a page: every page the feed has is answered, holds only posts of U and
\* is that page of all the posts of U, so every post of U is on a page.
C9_ProfileFeed ==
    [][Request({"profile"}) /\ resp'.name \in Users =>
          LET mine == {p \in DOMAIN posts : posts[p].author = resp'.name}
          IN  /\ resp'.status = "ok" <=> resp'.page <= NumPages(Cardinality(mine))
              /\ ListedPosts(resp') \subseteq mine
              /\ resp'.status = "ok" =>
                    \E s \in OrderByPubDateDesc(mine) :
                        resp'.body.list = PageRows(s, resp'.page)]_vars
C9_Witness ==
    /\ resp.view = "profile"
    /\ resp.name \in Users
    /\ resp.user # resp.name
    /\ resp.status = "ok"
    /\ resp.page = 2
    /\ Cardinality({p \in DOMAIN posts : posts[p].author = resp.name}) > PaginateBy
    /\ \E p \in ListedPosts(resp) : p \in DOMAIN posts /\ ~IsLive(p)
    /\ \E p \in DOMAIN posts : posts[p].author # resp.name

\* C10: a new post's author is the requester who created it, a new comment's
\* author is the requester who created it and its post the post the request
\* names; no step changes the author of a post or the author or post of a
\* comment that exists before and after it.
C10_AuthorshipFixed ==
    [][/\ \A p \in DOMAIN posts' :
            IF p \in DOMAIN posts
            THEN posts'[p].author = posts[p].author
            ELSE /\ resp'.view = "create_post"
                 /\ resp'.user \in Users
                 /\ posts'[p].author = resp'.user
       /\ \A c \in DOMAIN comments' :
            IF c \in DOMAIN comments
            THEN /\ comments'[c].author = comments[c].author
                 /\ comments'[c].post = comments[c].post
            ELSE /\ resp'.view = "add_comment"
                 /\ resp'.user \in Users
                 /\ comments'[c].author = resp'.user
                 /\ comments'[c].post = resp'.post_id]_vars
C10_Witness ==
    /\ resp.view = "edit_comment"
    /\ resp.status = "redirect"
    /\ resp.comment_id \in DOMAIN comments
    /\ comments[resp.comment_id].author = resp.user
    /\ comments[resp.comment_id].text = "b"
    /\ posts[comments[resp.comment_id].post].author # resp.user


\* ---- specification of the post handlers: every value of a valid post form ----
PostsNext ==
    \/ PostListView
    \/ PostCreateView(PostFormData)
    \/ PostUpdateView(PostFormData)
    \/ PostDeleteView
    \/ PostDetailView
    \/ ProfileView
    \/ CategoryPostsView
    \/ Tick
SpecPosts == Init /\ [][PostsNext]_vars

\* ---- specification of the paginated listings: the store holds up to
\* ---- ManyPosts posts written earlier, the first k of them by u1 ----
SeedPost(i, k, kind) ==
    [author |-> IF i <= k THEN "u1" ELSE "u2",
     is_published |-> kind = "live" \/ i % 2 = 1,
     pub_date |-> IF kind = "mixed" /\ i = 1 THEN MaxTime ELSE 1 - i,
     category |-> IF kind = "live" \/ i % 3 = 1 THEN "c1"
                  ELSE IF i % 3 = 2 THEN "c2" ELSE NoCategory]
InitPages ==
    /\ \E n \in 0..ManyPosts, k \in 0..ManyPosts, kind \in {"live", "mixed"} :
          /\ k <= n
          /\ posts = [i \in 1..n |-> SeedPost(i, k, kind)]
          /\ nextPostId = n + 1
    /\ comments = << >>
    /\ profiles = [u \in Users |-> "a"]
    /\ nextCommentId = 1
    /\ now = 0
    /\ resp = Response("", Anonymous, 0, 0, "", 0, "", NoTarget, NoBody)
PagesNext ==
    \/ PostListView
    \/ ProfileView
    \/ CategoryPostsView
    \/ Tick
SpecPages == InitPages /\ [][PagesNext]_vars

\* ---- specification of the comment and profile handlers: posts are live ----
LivePostFormData ==
    {d \in PostFormData : d.is_published /\ d.pub_date = 0 /\ d.category = "c1"}
CommentsNext ==
    \/ PostCreateView(LivePostFormData)
    \/ PostUpdateView(LivePostFormData)
    \/ PostDeleteView
    \/ PostDetailView
    \/ EditProfileView
    \/ AddCommentView
    \/ EditCommentView
    \/ DeleteCommentView
SpecComments == Init /\ [][CommentsNext]_vars
====
